---------------------------- MODULE Spec2Model ----------------------------
(***************************************************************************)
(* Petroleum economics formulas of financial_indicators.core.petroleum.   *)
(*                                                                         *)
(* Every formula is a Python function over decimal.Decimal values: zero,   *)
(* one or two validate_positive guard lines, one arithmetic line, one      *)
(* return line.  A Decimal is modelled as Python stores it: a sign, the    *)
(* coefficient as a string of decimal digits, and an exponent.  Arithmetic *)
(* follows the default decimal context (28 significant digits, rounding    *)
(* half-even), so that a quotient such as 1/3 is the 28-digit value the    *)
(* program returns and not the rational number.                            *)
(***************************************************************************)
EXTENDS Integers, Sequences, FiniteSets, TLC

(***************************************************************************)
(* Bounds of the model and constants of the program.                       *)
(***************************************************************************)
\* Arguments of a call are drawn from the integers -MaxCoef..MaxCoef
\* (as Decimals of exponent 0) and from the argument tuples of the tests.
MaxCoef == 3

\* The three cost arguments of netback are drawn from -MaxCost..MaxCost.
MaxCost == 1

\* Precision of the default decimal context (decimal.getcontext().prec).
Prec == 28

\* The literal 100 of operating_netback_margin.
Hundred == 100

(***************************************************************************)
(* Strings of decimal digits (most significant digit first).               *)
(***************************************************************************)
Abs(n) == IF n < 0 THEN 0 - n ELSE n

Zeros(k) == [i \in 1..k |-> 0]

RECURSIVE DigitsOf(_)
\* The digits of the natural number n; "0" for 0.
DigitsOf(n) ==
  IF n < 10 THEN <<n>> ELSE Append(DigitsOf(n \div 10), n % 10)

RECURSIVE ToInt(_)
\* The natural number a short digit string denotes.
ToInt(ds) ==
  IF ds = <<>> THEN 0
  ELSE ToInt(SubSeq(ds, 1, Len(ds) - 1)) * 10 + ds[Len(ds)]

RECURSIVE StripLeading(_)
\* str(int(...)): no leading zeros, "0" for zero.
StripLeading(ds) ==
  IF Len(ds) > 1 /\ ds[1] = 0 THEN StripLeading(Tail(ds)) ELSE
  IF ds = <<>> THEN <<0>> ELSE ds

AllZeros(ds, from) == \A i \in (from + 1)..Len(ds) : ds[i] = 0

IsZeroDigits(ds) == AllZeros(ds, 0)

RECURSIVE Increment(_)
\* coefficient + 1 on a digit string (may grow by one digit).
Increment(ds) ==
  IF ds = <<>> THEN <<1>>
  ELSE IF ds[Len(ds)] < 9
       THEN [ds EXCEPT ![Len(ds)] = @ + 1]
       ELSE Append(Increment(SubSeq(ds, 1, Len(ds) - 1)), 0)

RECURSIVE MulSmall(_, _, _)
\* digit string times the natural number k, plus carry (k below 2*10^8).
MulSmall(ds, k, carry) ==
  IF ds = <<>> THEN (IF carry = 0 THEN <<>> ELSE DigitsOf(carry))
  ELSE LET t == ds[Len(ds)] * k + carry
       IN  Append(MulSmall(SubSeq(ds, 1, Len(ds) - 1), k, t \div 10), t % 10)

\* a <= b for two digit strings, as natural numbers.
BigLeq(a, b) ==
  LET x == StripLeading(a)
      y == StripLeading(b)
  IN  \/ Len(x) < Len(y)
      \/ /\ Len(x) = Len(y)
         /\ \/ x = y
            \/ \E i \in 1..Len(x) :
                 /\ x[i] < y[i]
                 /\ \A j \in 1..(i - 1) : x[j] = y[j]

\* a < b for two digit strings of one length, read from digit `from' + 1 on.
SuffixLess(a, b, from) ==
  \E j \in (from + 1)..Len(a) :
    /\ a[j] < b[j]
    /\ \A k \in (from + 1)..(j - 1) : a[k] = b[k]

\* a - b for two digit strings with a >= b: each digit borrows from its
\* left neighbour exactly when the digits to its right fall short.
BigSub(a, b) ==
  LET x == StripLeading(a)
      y == Zeros(Len(x) - Len(StripLeading(b))) \o StripLeading(b)
  IN  StripLeading([i \in 1..Len(x) |->
        (x[i] - y[i] - (IF SuffixLess(x, y, i) THEN 1 ELSE 0) + 10) % 10])

(***************************************************************************)
(* decimal.Decimal                                                         *)
(***************************************************************************)
\* Decimal(str): the value c * 10^e, built exactly (no rounding).
Dec(c, e) ==
  [sign |-> IF c < 0 THEN 1 ELSE 0, digits |-> DigitsOf(Abs(c)), exp |-> e]

\* The signal a trapped DivisionByZero / InvalidOperation leaves in place of
\* a value: the exception that aborts the arithmetic line.
DivisionByZero == [sign |-> 0, digits |-> <<>>, exp |-> 0]

IsSignal(x) == x.digits = <<>>

DecIsZero(x) == ~IsSignal(x) /\ IsZeroDigits(x.digits)

\* value > 0 (Decimal.__gt__ against 0).
DecIsPositive(x) == ~IsSignal(x) /\ x.sign = 0 /\ ~IsZeroDigits(x.digits)

DecIsNegative(x) == ~IsSignal(x) /\ x.sign = 1 /\ ~IsZeroDigits(x.digits)

\* Rounding decision of ROUND_HALF_EVEN when the digits after position
\* keep are dropped: TRUE when the kept coefficient is incremented.
RoundsUp(ds, keep) ==
  /\ keep < Len(ds)
  /\ \/ ds[keep + 1] > 5
     \/ /\ ds[keep + 1] = 5
        /\ \/ ~AllZeros(ds, keep + 1)
           \/ (keep > 0 /\ ds[keep] % 2 = 1)

\* Decimal._fix: round the coefficient to the context precision.
Fix(sign, ds, exp) ==
  IF Len(ds) <= Prec THEN [sign |-> sign, digits |-> ds, exp |-> exp]
  ELSE LET kept == SubSeq(ds, 1, Prec)
           up   == IF RoundsUp(ds, Prec) THEN Increment(kept) ELSE kept
           drop == Len(ds) - Prec
       IN  IF Len(up) > Prec
           THEN [sign |-> sign, digits |-> SubSeq(up, 1, Prec), exp |-> exp + drop + 1]
           ELSE [sign |-> sign, digits |-> up, exp |-> exp + drop]

RECURSIVE Pow10(_)
Pow10(k) == IF k <= 0 THEN 1 ELSE 10 * Pow10(k - 1)

\* The signed coefficient of a Decimal whose coefficient is short; only the
\* arguments of a call and their sums and differences are read this way.
CoefInt(x) == (IF x.sign = 1 THEN 0 - 1 ELSE 1) * ToInt(x.digits)

Min(a, b) == IF a <= b THEN a ELSE b

\* Decimal.__add__: align both coefficients at the smaller exponent, add,
\* round to the context.  A zero sum is +0 under ROUND_HALF_EVEN.
DecAdd(a, b) ==
  IF IsSignal(a) THEN a ELSE IF IsSignal(b) THEN b ELSE
  LET exp == Min(a.exp, b.exp)
      sum == CoefInt(a) * Pow10(a.exp - exp) + CoefInt(b) * Pow10(b.exp - exp)
  IN  Fix(IF sum < 0 THEN 1 ELSE 0, DigitsOf(Abs(sum)), exp)

\* Decimal.copy_negate
DecNeg(a) == IF IsSignal(a) THEN a ELSE [a EXCEPT !.sign = 1 - @]

\* Decimal.__sub__: self + other.copy_negate()
DecSub(a, b) == DecAdd(a, DecNeg(b))

\* Decimal.__mul__ by a Decimal of short coefficient (the int 100 is
\* converted to Decimal(100) first).
DecMul(a, b) ==
  IF IsSignal(a) THEN a ELSE IF IsSignal(b) THEN b ELSE
  LET sign == IF a.sign = b.sign THEN 0 ELSE 1
      exp  == a.exp + b.exp
  IN  IF IsZeroDigits(a.digits) \/ IsZeroDigits(b.digits)
      THEN Fix(sign, <<0>>, exp)
      ELSE Fix(sign, StripLeading(MulSmall(a.digits, ToInt(b.digits), 0)), exp)

RECURSIVE LongDivide(_, _, _, _, _)
\* divmod(int(ds), d) by long division from digit i on: the quotient's
\* digits (leading zeros included) and the remainder.
LongDivide(ds, i, d, r, q) ==
  IF i > Len(ds) THEN [q |-> q, r |-> r]
  ELSE LET cur == r * 10 + ds[i]
       IN  LongDivide(ds, i + 1, d, cur % d, Append(q, cur \div d))

\* divmod(int(cur), int(d)) for cur < 10 * d: the digit k and the remainder.
QuotientDigit(cur, d) ==
  LET k == CHOOSE k \in 0..9 :
             /\ BigLeq(MulSmall(d, k, 0), cur)
             /\ ~BigLeq(MulSmall(d, k + 1, 0), cur)
  IN  [digit |-> k, r |-> BigSub(cur, MulSmall(d, k, 0))]

RECURSIVE BigLongDivide(_, _, _, _, _)
\* LongDivide of the digits lo..hi of ds by a divisor d that is a digit
\* string, r being the remainder left by the digits before lo: schoolbook
\* division, the digits being taken in two halves.
BigLongDivide(ds, lo, hi, d, r) ==
  IF lo > hi THEN [q |-> <<>>, r |-> r]
  ELSE IF lo = hi
       THEN LET qd == QuotientDigit(StripLeading(Append(r, ds[lo])), d)
            IN  [q |-> <<qd.digit>>, r |-> qd.r]
       ELSE LET mid   == (lo + hi) \div 2
                left  == BigLongDivide(ds, lo, mid, d, r)
                right == BigLongDivide(ds, mid + 1, hi, d, left.r)
            IN  [q |-> left.q \o right.q, r |-> right.r]

\* divmod(int(ds), int(dd)): the quotient's digits and whether the
\* remainder is zero.
DivMod(ds, dd) ==
  IF Len(dd) <= 8
  THEN LET qr == LongDivide(ds, 1, ToInt(dd), 0, <<>>)
       IN  [q |-> qr.q, exact |-> qr.r = 0]
  ELSE LET qr == BigLongDivide(ds, 1, Len(ds), dd, <<0>>)
       IN  [q |-> qr.q, exact |-> IsZeroDigits(qr.r)]

RECURSIVE StripTrailing(_, _, _)
\* "while exp < ideal_exp and coeff % 10 == 0: coeff //= 10; exp += 1"
StripTrailing(ds, exp, ideal) ==
  IF exp < ideal /\ Len(ds) > 1 /\ ds[Len(ds)] = 0
  THEN StripTrailing(SubSeq(ds, 1, Len(ds) - 1), exp + 1, ideal)
  ELSE [digits |-> ds, exp |-> exp]

\* Decimal.__truediv__.
DecDiv(a, b) ==
  IF IsSignal(a) THEN a ELSE IF IsSignal(b) THEN b ELSE
  LET sign  == IF a.sign = b.sign THEN 0 ELSE 1
      ideal == a.exp - b.exp
  IN  IF IsZeroDigits(b.digits) THEN DivisionByZero
      ELSE IF IsZeroDigits(a.digits) THEN Fix(sign, <<0>>, ideal)
      ELSE
        LET shift == Len(b.digits) - Len(a.digits) + Prec + 1
            qr    == DivMod(a.digits \o Zeros(shift), b.digits)
            coeff == StripLeading(qr.q)
            last  == coeff[Len(coeff)]
        IN  IF ~qr.exact
            THEN \* inexact: make the dropped digits non-zero for the rounding
                 Fix(sign,
                     IF last % 5 = 0 THEN [coeff EXCEPT ![Len(coeff)] = @ + 1] ELSE coeff,
                     ideal - shift)
            ELSE \* exact: as close to the ideal exponent as possible
                 LET st == StripTrailing(coeff, ideal - shift, ideal)
                 IN  Fix(sign, st.digits, st.exp)


\* Decimal.quantize to the exponent e under ROUND_HALF_EVEN: the rounding
\* to a fixed number of decimal places (e = -2: two places).
Quantize(x, e) ==
  IF IsZeroDigits(x.digits) THEN [sign |-> x.sign, digits |-> <<0>>, exp |-> e]
  ELSE IF x.exp >= e
       THEN [sign |-> x.sign, digits |-> x.digits \o Zeros(x.exp - e), exp |-> e]
       ELSE LET n    == Len(x.digits) + x.exp - e
                ds   == IF n < 0 THEN <<1>> ELSE x.digits
                keep == IF n < 0 THEN 0 ELSE n
                kept == SubSeq(ds, 1, keep)
                up   == IF RoundsUp(ds, keep) THEN Increment(kept) ELSE kept
            IN  [sign |-> x.sign, digits |-> IF up = <<>> THEN <<0>> ELSE up, exp |-> e]

\* The same with ROUND_DOWN (truncation).
Truncate(x, e) ==
  IF IsZeroDigits(x.digits) THEN [sign |-> x.sign, digits |-> <<0>>, exp |-> e]
  ELSE IF x.exp >= e
       THEN [sign |-> x.sign, digits |-> x.digits \o Zeros(x.exp - e), exp |-> e]
       ELSE LET keep == Len(x.digits) + x.exp - e
                kept == IF keep <= 0 THEN <<>> ELSE SubSeq(x.digits, 1, keep)
            IN  [sign |-> x.sign, digits |-> IF kept = <<>> THEN <<0>> ELSE kept, exp |-> e]

(***************************************************************************)
(* financial_indicators.validation / financial_indicators.exceptions       *)
(***************************************************************************)
\* The exception of the single error kind: it carries the parameter name
\* and the offending value.
InvalidInputError(name, value) ==
  [kind |-> "InvalidInputError", param |-> name, value |-> value]

\* validate_positive(value, name): no effect when value > 0, otherwise
\* raises InvalidInputError for that name and value.
validate_positive(value, name) ==
  IF DecIsPositive(value) THEN [kind |-> "ok"] ELSE InvalidInputError(name, value)

(***************************************************************************)
(* State: the call frame that is running, and what its callers hold.       *)
(*   fn       the formula being called                                     *)
(*   args     its positional arguments                                     *)
(*   pc       the source line about to run; 0 when no call is running      *)
(*   local    the local variable the arithmetic line assigns               *)
(*   outcome  how the last call ended: a returned value or an exception    *)
(*   trace    the validations and arithmetic operations the call has run   *)
(*   parked   the frame of another call, set aside by its caller: an       *)
(*            earlier call kept for comparison, or the call of a second    *)
(*            thread that is not scheduled                                 *)
(*   chain    the progress of a caller that passes the results of two      *)
(*            formulas to a third                                          *)
(***************************************************************************)
VARIABLES fn, args, pc, local, outcome, trace, parked, chain

vars == <<fn, args, pc, local, outcome, trace, parked, chain>>

\* Python's None: the local before the arithmetic line has assigned it.
None == [kind |-> "None"]

NoOutcome == [kind |-> "none"]

Returned(value) == [kind |-> "return", value |-> value]

\* decimal.DivisionByZero / decimal.InvalidOperation, trapped by the
\* default context.
ArithmeticTrap == [kind |-> "DivisionByZero"]

Step(op, line, name) == [op |-> op, line |-> line, name |-> name]

ArithOps == {"add", "sub", "mul", "div"}

\* The operations of an arithmetic line that run: all of them, or those up
\* to the division that traps.
RECURSIVE UpToDiv(_)
UpToDiv(ops) ==
  IF ops = <<>> THEN <<>>
  ELSE IF Head(ops) = "div" THEN <<"div">> ELSE <<Head(ops)>> \o UpToDiv(Tail(ops))

\* A guard line: validate_positive(value, "name").
Validate(line, value, name, next) ==
  /\ pc = line
  /\ LET r == validate_positive(value, name)
     IN  IF r.kind = "ok"
         THEN pc' = next /\ outcome' = outcome
         ELSE pc' = 0 /\ outcome' = r
  /\ trace' = Append(trace, Step("validate", line, name))
  /\ UNCHANGED <<fn, args, local, parked, chain>>

\* An arithmetic line: x = <expression>, running the operations ops.
Arith(line, ops, value, next) ==
  /\ pc = line
  /\ IF IsSignal(value)
     THEN /\ pc' = 0
          /\ outcome' = ArithmeticTrap
          /\ local' = local
          /\ trace' = trace \o [i \in 1..Len(UpToDiv(ops)) |-> Step(UpToDiv(ops)[i], line, "")]
     ELSE /\ pc' = next
          /\ outcome' = outcome
          /\ local' = value
          /\ trace' = trace \o [i \in 1..Len(ops) |-> Step(ops[i], line, "")]
  /\ UNCHANGED <<fn, args, parked, chain>>

\* A return line: return x.
Return(line) ==
  /\ pc = line
  /\ pc' = 0
  /\ outcome' = Returned(local)
  /\ trace' = Append(trace, Step("return", line, ""))
  /\ UNCHANGED <<fn, args, local, parked, chain>>

(***************************************************************************)
(* The ten formulas, line by line.                                         *)
(***************************************************************************)

\* finding_development_cost with the parentheses of the sum lost: only the
\* development costs are divided.
finding_development_cost_unparenthesised(exploration_costs, development_costs, reserves_added) ==
  \/ Validate(40, reserves_added, "reserves_added", 42)
  \/ Arith(42, <<"div", "add">>,
           DecAdd(exploration_costs, DecDiv(development_costs, reserves_added)), 43)
  \/ Return(43)

finding_development_cost(exploration_costs, development_costs, reserves_added) ==
  \/ Validate(40, reserves_added, "reserves_added", 42)
  \/ Arith(42, <<"add", "div">>,
           DecDiv(DecAdd(exploration_costs, development_costs), reserves_added), 43)
  \/ Return(43)


\* reserve_replacement_ratio rounding its ratio to four places, as its
\* docstring prints it.
reserve_replacement_ratio_quantized(reserves_added, production) ==
  \/ Validate(79, production, "production", 81)
  \/ Arith(81, <<"div">>, Quantize(DecDiv(reserves_added, production), 0 - 4), 82)
  \/ Return(82)

reserve_replacement_ratio(reserves_added, production) ==
  \/ Validate(79, production, "production", 81)
  \/ Arith(81, <<"div">>, DecDiv(reserves_added, production), 82)
  \/ Return(82)


\* reserve_life_index guarding its denominator only.
reserve_life_index_unguarded_reserves(proved_reserves, annual_production) ==
  \/ Validate(112, annual_production, "annual_production", 115)
  \/ Arith(115, <<"div">>, DecDiv(proved_reserves, annual_production), 116)
  \/ Return(116)

reserve_life_index(proved_reserves, annual_production) ==
  \/ Validate(112, proved_reserves, "proved_reserves", 113)
  \/ Validate(113, annual_production, "annual_production", 115)
  \/ Arith(115, <<"div">>, DecDiv(proved_reserves, annual_production), 116)
  \/ Return(116)


\* reserves_per_share checking the share count before the reserves.
reserves_per_share_shares_first(total_proved_reserves, shares_outstanding) ==
  \/ Validate(149, shares_outstanding, "shares_outstanding", 150)
  \/ Validate(150, total_proved_reserves, "total_proved_reserves", 152)
  \/ Arith(152, <<"div">>, DecDiv(total_proved_reserves, shares_outstanding), 153)
  \/ Return(153)

reserves_per_share(total_proved_reserves, shares_outstanding) ==
  \/ Validate(149, total_proved_reserves, "total_proved_reserves", 150)
  \/ Validate(150, shares_outstanding, "shares_outstanding", 152)
  \/ Arith(152, <<"div">>, DecDiv(total_proved_reserves, shares_outstanding), 153)
  \/ Return(153)


\* lifting_cost requiring positive operating costs as well.
lifting_cost_guards_costs(total_operating_costs, total_production) ==
  \/ Validate(184, total_production, "total_production", 185)
  \/ Validate(185, total_operating_costs, "total_operating_costs", 186)
  \/ Arith(186, <<"div">>, DecDiv(total_operating_costs, total_production), 187)
  \/ Return(187)

lifting_cost(total_operating_costs, total_production) ==
  \/ Validate(184, total_production, "total_production", 186)
  \/ Arith(186, <<"div">>, DecDiv(total_operating_costs, total_production), 187)
  \/ Return(187)


\* netback subtracting the difference of the costs instead of each cost.
netback_regrouped(oil_price, royalties, transportation, operating_costs) ==
  \/ Arith(226, <<"sub", "sub", "sub">>,
           DecSub(oil_price, DecSub(DecSub(royalties, transportation), operating_costs)),
           227)
  \/ Return(227)

netback(oil_price, royalties, transportation, operating_costs) ==
  \/ Arith(226, <<"sub", "sub", "sub">>,
           DecSub(DecSub(DecSub(oil_price, royalties), transportation), operating_costs),
           227)
  \/ Return(227)

breakeven_price(total_costs, total_production) ==
  \/ Validate(258, total_production, "total_production", 260)
  \/ Arith(260, <<"div">>, DecDiv(total_costs, total_production), 261)
  \/ Return(261)



\* operating_netback_margin dividing by a hundred times the price.
operating_netback_margin_scaled_price(netback_, oil_price) ==
  \/ Validate(291, oil_price, "oil_price", 293)
  \/ Arith(293, <<"mul", "div">>,
           DecDiv(netback_, DecMul(oil_price, Dec(Hundred, 0))), 294)
  \/ Return(294)


\* operating_netback_margin whose result depends on something other than
\* its arguments: the full quotient on some calls, two decimal places on
\* others.
operating_netback_margin_unstable(netback_, oil_price) ==
  \/ Validate(291, oil_price, "oil_price", 293)
  \/ Arith(293, <<"div", "mul">>,
           DecMul(DecDiv(netback_, oil_price), Dec(Hundred, 0)), 294)
  \/ Arith(293, <<"div", "mul">>,
           Quantize(DecMul(DecDiv(netback_, oil_price), Dec(Hundred, 0)), 0 - 2), 294)
  \/ Return(294)

\* operating_netback_margin computing the margin before checking the price.
operating_netback_margin_late_check(netback_, oil_price) ==
  \/ Arith(291, <<"div", "mul">>,
           DecMul(DecDiv(netback_, oil_price), Dec(Hundred, 0)), 293)
  \/ Validate(293, oil_price, "oil_price", 294)
  \/ Return(294)

operating_netback_margin(netback_, oil_price) ==
  \/ Validate(291, oil_price, "oil_price", 293)
  \/ Arith(293, <<"div", "mul">>,
           DecMul(DecDiv(netback_, oil_price), Dec(Hundred, 0)), 294)
  \/ Return(294)



\* capital_efficiency keeping its quotient in a variable of the module
\* instead of a local: the return line reads what the other thread's call
\* of the formula has stored there.
capital_efficiency_module_variable(production_added, capital_expenditure) ==
  \/ Validate(326, production_added, "production_added", 327)
  \/ Validate(327, capital_expenditure, "capital_expenditure", 329)
  \/ Arith(329, <<"div">>, DecDiv(production_added, capital_expenditure), 330)
  \/ /\ pc = 330
     /\ pc' = 0
     /\ outcome' = Returned(IF parked.fn = fn /\ parked.local # None
                            THEN parked.local ELSE local)
     /\ trace' = Append(trace, Step("return", 330, ""))
     /\ UNCHANGED <<fn, args, local, parked, chain>>

\* capital_efficiency without its second guard line.
capital_efficiency_unguarded(production_added, capital_expenditure) ==
  \/ Validate(326, production_added, "production_added", 329)
  \/ Arith(329, <<"div">>, DecDiv(production_added, capital_expenditure), 330)
  \/ Return(330)

capital_efficiency(production_added, capital_expenditure) ==
  \/ Validate(326, production_added, "production_added", 327)
  \/ Validate(327, capital_expenditure, "capital_expenditure", 329)
  \/ Arith(329, <<"div">>, DecDiv(production_added, capital_expenditure), 330)
  \/ Return(330)




\* recycle_ratio dividing without checking its divisor.
recycle_ratio_unguarded(operating_netback, finding_development_cost_) ==
  \/ /\ pc = 368
     /\ pc' = 370
     /\ UNCHANGED <<fn, args, local, outcome, trace, parked, chain>>
  \/ Arith(370, <<"div">>, DecDiv(operating_netback, finding_development_cost_), 371)
  \/ Return(371)

\* recycle_ratio with the ratio inverted.
recycle_ratio_inverted(operating_netback, finding_development_cost_) ==
  \/ Validate(368, finding_development_cost_, "finding_development_cost", 370)
  \/ Arith(370, <<"div">>, DecDiv(finding_development_cost_, operating_netback), 371)
  \/ Return(371)

\* recycle_ratio reporting its guard under the other parameter's name.
recycle_ratio_wrong_name(operating_netback, finding_development_cost_) ==
  \/ Validate(368, finding_development_cost_, "operating_netback", 370)
  \/ Arith(370, <<"div">>, DecDiv(operating_netback, finding_development_cost_), 371)
  \/ Return(371)

recycle_ratio(operating_netback, finding_development_cost_) ==
  \/ Validate(368, finding_development_cost_, "finding_development_cost", 370)
  \/ Arith(370, <<"div">>, DecDiv(operating_netback, finding_development_cost_), 371)
  \/ Return(371)

(***************************************************************************)
(* Calls.                                                                  *)
(***************************************************************************)
Functions ==
  {"finding_development_cost", "reserve_replacement_ratio", "reserve_life_index",
   "reserves_per_share", "lifting_cost", "netback", "breakeven_price",
   "operating_netback_margin", "capital_efficiency", "recycle_ratio"}

\* Number of positional parameters of each formula.
Arity(f) ==
  CASE f = "finding_development_cost" -> 3
    [] f = "netback" -> 4
    [] OTHER -> 2

\* First executable line of each formula.
Entry(f) ==
  CASE f = "finding_development_cost" -> 40
    [] f = "reserve_replacement_ratio" -> 79
    [] f = "reserve_life_index" -> 112
    [] f = "reserves_per_share" -> 149
    [] f = "lifting_cost" -> 184
    [] f = "netback" -> 226
    [] f = "breakeven_price" -> 258
    [] f = "operating_netback_margin" -> 291
    [] f = "capital_efficiency" -> 326
    [] f = "recycle_ratio" -> 368

\* The small Decimals a caller passes: negative, zero and positive.
Inputs == {Dec(c, 0) : c \in (0 - MaxCoef)..MaxCoef}

\* The small per-barrel costs a caller passes to netback.
Costs == {Dec(c, 0) : c \in (0 - MaxCost)..MaxCost}

\* The argument tuples of the test suite and of the docstring examples.
TestCalls(f) ==
  CASE f = "finding_development_cost" ->
         { <<Dec(20000000, 0), Dec(30000000, 0), Dec(5000000, 0)>>,
           <<Dec(50000000, 0), Dec(50000000, 0), Dec(2000000, 0)>>,
           <<Dec(500000, 0), Dec(500000, 0), Dec(0, 0)>>,
           <<Dec(500000, 0), Dec(500000, 0), Dec(0 - 1000000, 0)>> }
    [] f = "reserve_replacement_ratio" ->
         { <<Dec(1200000, 0), Dec(1000000, 0)>>,
           <<Dec(1000000, 0), Dec(1000000, 0)>>,
           <<Dec(800000, 0), Dec(1000000, 0)>>,
           <<Dec(1000000, 0), Dec(0, 0)>> }
    [] f = "reserve_life_index" ->
         { <<Dec(100000000, 0), Dec(10000000, 0)>>,
           <<Dec(10000000, 0), Dec(1000000, 0)>>,
           <<Dec(5000000, 0), Dec(2000000, 0)>>,
           <<Dec(1000000, 0), Dec(0, 0)>>,
           <<Dec(0 - 1000000, 0), Dec(100000, 0)>> }
    [] f = "reserves_per_share" ->
         { <<Dec(50000000, 0), Dec(10000000, 0)>>,
           <<Dec(1000000, 0), Dec(5000000, 0)>>,
           <<Dec(1000000, 0), Dec(0, 0)>> }
    [] f = "lifting_cost" ->
         { <<Dec(20000000, 0), Dec(2000000, 0)>>,
           <<Dec(50000000, 0), Dec(1000000, 0)>>,
           <<Dec(1000000, 0), Dec(0, 0)>> }
    [] f = "netback" ->
         { <<Dec(7000, 0 - 2), Dec(1000, 0 - 2), Dec(500, 0 - 2), Dec(1500, 0 - 2)>>,
           <<Dec(7000, 0 - 2), Dec(1000, 0 - 2), Dec(1500, 0 - 2), Dec(500, 0 - 2)>>,
           <<Dec(5000, 0 - 2), Dec(800, 0 - 2), Dec(2000, 0 - 2), Dec(700, 0 - 2)>>,
           <<Dec(3000, 0 - 2), Dec(500, 0 - 2), Dec(1000, 0 - 2), Dec(2500, 0 - 2)>>,
           <<Dec(3000, 0 - 2), Dec(500, 0 - 2), Dec(2500, 0 - 2), Dec(1000, 0 - 2)>>,
           <<Dec(0, 0 - 2), Dec(0, 0 - 2), Dec(1500, 0 - 2), Dec(500, 0 - 2)>> }
    [] f = "breakeven_price" ->
         { <<Dec(500000000, 0), Dec(10000000, 0)>>,
           <<Dec(800000000, 0), Dec(10000000, 0)>>,
           <<Dec(1000000, 0), Dec(0, 0)>>,
           <<Dec(1000000, 0), Dec(0 - 100000, 0)>> }
    [] f = "operating_netback_margin" ->
         { <<Dec(4000, 0 - 2), Dec(7000, 0 - 2)>>,
           <<Dec(3500, 0 - 2), Dec(7000, 0 - 2)>>,
           <<Dec(5000, 0 - 2), Dec(6000, 0 - 2)>>,
           <<Dec(1000, 0 - 2), Dec(5000, 0 - 2)>>,
           <<Dec(10, 0), Dec(0, 0)>> }
    [] f = "capital_efficiency" ->
         { <<Dec(5000, 0), Dec(100000000, 0)>>,
           <<Dec(10000, 0), Dec(50000000, 0)>>,
           <<Dec(1000, 0), Dec(100000000, 0)>>,
           <<Dec(1000000, 0), Dec(0, 0)>> }
    [] f = "recycle_ratio" ->
         { <<Dec(4500, 0 - 2), Dec(1500, 0 - 2)>>,
           <<Dec(2000, 0 - 2), Dec(1800, 0 - 2)>>,
           <<Dec(1000, 0 - 2), Dec(2500, 0 - 2)>>,
           <<Dec(30, 0), Dec(0, 0)>>,
           <<Dec(30, 0), Dec(0 - 15, 0)>> }

\* Every argument tuple a caller may pass to f.
Calls(f) ==
  TestCalls(f) \cup
    IF f = "netback"
    THEN {<<p, r, t, o>> : p \in Inputs, r \in Costs, t \in Costs, o \in Costs}
    ELSE [1..Arity(f) -> Inputs]

\* The call f(*a): a new frame at the first line of f.
Call(f, a) ==
  /\ fn' = f
  /\ args' = a
  /\ pc' = Entry(f)
  /\ local' = None
  /\ outcome' = NoOutcome
  /\ trace' = <<>>

\* A caller invokes formula f with the arguments a.
Invoke ==
  /\ pc = 0
  /\ \E f \in Functions :
       \E a \in Calls(f) : Call(f, a)
  /\ UNCHANGED <<parked, chain>>

\* One line of the running formula.
Run ==
  \/ fn = "finding_development_cost"
       /\ finding_development_cost(args[1], args[2], args[3])
  \/ fn = "reserve_replacement_ratio" /\ reserve_replacement_ratio(args[1], args[2])
  \/ fn = "reserve_life_index" /\ reserve_life_index(args[1], args[2])
  \/ fn = "reserves_per_share" /\ reserves_per_share(args[1], args[2])
  \/ fn = "lifting_cost" /\ lifting_cost(args[1], args[2])
  \/ fn = "netback" /\ netback(args[1], args[2], args[3], args[4])
  \/ fn = "breakeven_price" /\ breakeven_price(args[1], args[2])
  \/ fn = "operating_netback_margin" /\ operating_netback_margin(args[1], args[2])
  \/ fn = "capital_efficiency" /\ capital_efficiency(args[1], args[2])
  \/ fn = "recycle_ratio" /\ recycle_ratio(args[1], args[2])

\* The running frame, as one value.
Frame ==
  [fn |-> fn, args |-> args, pc |-> pc, local |-> local, outcome |-> outcome,
   trace |-> trace]

\* No call yet.
NoFrame ==
  [fn |-> "none", args |-> <<>>, pc |-> 0, local |-> None, outcome |-> NoOutcome,
   trace |-> <<>>]

\* A caller that has not begun its chain of calls.
NoChain ==
  [stage |-> "idle", inputs |-> <<>>, netback |-> None, by |-> "none",
   result |-> NoOutcome]

\* After import no call is running and nothing has been returned.
Init ==
  /\ fn = "none"
  /\ args = <<>>
  /\ pc = 0
  /\ local = None
  /\ outcome = NoOutcome
  /\ trace = <<>>
  /\ parked = NoFrame
  /\ chain = NoChain

Next == Invoke \/ Run

Spec == Init /\ [][Next]_vars

(***************************************************************************)
(* A caller that repeats calls.                                            *)
(***************************************************************************)
\* The calls of the test suite, and each formula with all its arguments
\* equal to one small cost.
SmallCalls(f) ==
  TestCalls(f) \cup {[i \in 1..Arity(f) |-> c] : c \in Costs}

InvokeSmall ==
  /\ pc = 0
  /\ \E f \in Functions :
       \E a \in SmallCalls(f) : Call(f, a)
  /\ UNCHANGED <<parked, chain>>

\* The caller keeps the call that has just ended, to compare a later call
\* with it.
Remember ==
  /\ pc = 0
  /\ fn # "none"
  /\ parked # Frame
  /\ parked' = Frame
  /\ UNCHANGED <<fn, args, pc, local, outcome, trace, chain>>

NextRepeat == InvokeSmall \/ Run \/ Remember

\* Calls one after another, any earlier one of them remembered.
SpecRepeat == Init /\ [][NextRepeat]_vars

(***************************************************************************)
(* Two threads calling the formulas.                                       *)
(***************************************************************************)
\* The scheduler switches threads between two lines: the running frame is
\* set aside and the other thread's frame runs on.
Switch ==
  /\ parked # Frame
  /\ fn' = parked.fn
  /\ args' = parked.args
  /\ pc' = parked.pc
  /\ local' = parked.local
  /\ outcome' = parked.outcome
  /\ trace' = parked.trace
  /\ parked' = Frame
  /\ UNCHANGED chain

NextConcurrent == InvokeSmall \/ Run \/ Switch

\* Every interleaving of the lines of the calls of two threads.
SpecConcurrent == Init /\ [][NextConcurrent]_vars

(***************************************************************************)
(* A caller evaluating                                                     *)
(*   recycle_ratio(netback(p, r, t, o), finding_development_cost(e, d, ra)) *)
(* Python evaluates the arguments from left to right, then makes the       *)
(* outer call; an exception raised by any call ends the evaluation.        *)
(***************************************************************************)
\* The netback arguments of the chain: those of the tests, and a small
\* price and royalty with no other cost.
ChainNetbacks ==
  TestCalls("netback") \cup {<<p, r, Dec(0, 0), Dec(0, 0)>> : p \in Costs, r \in Costs}

\* The finding_development_cost arguments of the chain.
ChainCosts == {<<e, d, ra>> : e \in Inputs, d \in Costs, ra \in Inputs}

\* The evaluation ends in the outcome of the call that has just ended.
ChainEndsHere ==
  /\ chain' = [chain EXCEPT !.stage = "done", !.by = fn, !.result = outcome]
  /\ UNCHANGED <<fn, args, pc, local, outcome, trace, parked>>

\* The first argument: netback(p, r, t, o).
ChainFirstArgument ==
  /\ chain.stage = "idle"
  /\ pc = 0
  /\ \E n \in ChainNetbacks :
       \E c \in ChainCosts :
         /\ Call("netback", n)
         /\ chain' = [chain EXCEPT !.stage = "netback", !.inputs = n \o c]
  /\ UNCHANGED parked

\* The second argument: finding_development_cost(e, d, ra).
ChainSecondArgument ==
  /\ chain.stage = "netback"
  /\ pc = 0
  /\ IF outcome.kind = "return"
     THEN /\ Call("finding_development_cost", SubSeq(chain.inputs, 5, 7))
          /\ chain' = [chain EXCEPT !.stage = "finding_development_cost",
                                    !.netback = outcome.value]
          /\ UNCHANGED parked
     ELSE ChainEndsHere

\* The outer call: recycle_ratio(<first argument>, <second argument>).
ChainOuterCall ==
  /\ chain.stage = "finding_development_cost"
  /\ pc = 0
  /\ IF outcome.kind = "return"
     THEN /\ Call("recycle_ratio", <<chain.netback, outcome.value>>)
          /\ chain' = [chain EXCEPT !.stage = "recycle_ratio"]
          /\ UNCHANGED parked
     ELSE ChainEndsHere

\* The value or the exception of the outer call is that of the expression.
ChainResult ==
  /\ chain.stage = "recycle_ratio"
  /\ pc = 0
  /\ ChainEndsHere

\* One line of the formula the chain is in.
RunChain ==
  \/ fn = "netback" /\ netback(args[1], args[2], args[3], args[4])
  \/ fn = "finding_development_cost"
       /\ finding_development_cost(args[1], args[2], args[3])
  \/ fn = "recycle_ratio" /\ recycle_ratio(args[1], args[2])

NextChain ==
  \/ ChainFirstArgument
  \/ ChainSecondArgument
  \/ ChainOuterCall
  \/ ChainResult
  \/ RunChain

SpecChain == Init /\ [][NextChain]_vars

(***************************************************************************)
(* Vocabulary of the properties.                                           *)
(***************************************************************************)
\* Parameter names of each formula, in signature order.
ParamNames(f) ==
  CASE f = "finding_development_cost" ->
         <<"exploration_costs", "development_costs", "reserves_added">>
    [] f = "reserve_replacement_ratio" -> <<"reserves_added", "production">>
    [] f = "reserve_life_index" -> <<"proved_reserves", "annual_production">>
    [] f = "reserves_per_share" -> <<"total_proved_reserves", "shares_outstanding">>
    [] f = "lifting_cost" -> <<"total_operating_costs", "total_production">>
    [] f = "netback" -> <<"oil_price", "royalties", "transportation", "operating_costs">>
    [] f = "breakeven_price" -> <<"total_costs", "total_production">>
    [] f = "operating_netback_margin" -> <<"netback", "oil_price">>
    [] f = "capital_efficiency" -> <<"production_added", "capital_expenditure">>
    [] f = "recycle_ratio" -> <<"operating_netback", "finding_development_cost">>

\* The argument of the running call bound to the parameter called name.
ArgNamed(name) ==
  args[CHOOSE i \in 1..Len(ParamNames(fn)) : ParamNames(fn)[i] = name]

\* The parameters the documentation requires to be positive.
MustBePositive(f) ==
  CASE f = "finding_development_cost" -> {"reserves_added"}
    [] f = "reserve_replacement_ratio" -> {"production"}
    [] f = "reserve_life_index" -> {"proved_reserves", "annual_production"}
    [] f = "reserves_per_share" -> {"total_proved_reserves", "shares_outstanding"}
    [] f = "lifting_cost" -> {"total_production"}
    [] f = "netback" -> {}
    [] f = "breakeven_price" -> {"total_production"}
    [] f = "operating_netback_margin" -> {"oil_price"}
    [] f = "capital_efficiency" -> {"production_added", "capital_expenditure"}
    [] f = "recycle_ratio" -> {"finding_development_cost"}

\* The parameter each ratio divides by.
Denominator(f) ==
  CASE f = "finding_development_cost" -> "reserves_added"
    [] f = "reserve_replacement_ratio" -> "production"
    [] f = "reserve_life_index" -> "annual_production"
    [] f = "reserves_per_share" -> "shares_outstanding"
    [] f = "lifting_cost" -> "total_production"
    [] f = "breakeven_price" -> "total_production"
    [] f = "operating_netback_margin" -> "oil_price"
    [] f = "capital_efficiency" -> "capital_expenditure"
    [] f = "recycle_ratio" -> "finding_development_cost"

\* A call has ended (by a return or by an exception).
Ended == pc = 0 /\ outcome.kind # "none"

HasReturned == pc = 0 /\ outcome.kind = "return"

HasRaisedInvalidInput == pc = 0 /\ outcome.kind = "InvalidInputError"

\* The operations the running call has performed, in order.
OpsOf(t) == [i \in 1..Len(t) |-> t[i].op]

Performed(op) == \E i \in 1..Len(trace) : trace[i].op = op

PerformedArithmetic == \E i \in 1..Len(trace) : trace[i].op \in ArithOps

(***************************************************************************)
(* C1.  A call whose guarded argument is zero or negative ends in the      *)
(* invalid-input error and returns no value, whatever the other arguments  *)
(* are; netback, which has no precondition, never ends in an error.        *)
(***************************************************************************)
C1_GuardedArgumentRaises ==
  Ended =>
    /\ (\E n \in MustBePositive(fn) : ~DecIsPositive(ArgNamed(n)))
         => /\ outcome.kind = "InvalidInputError"
            /\ local = None
    /\ fn = "netback" => outcome.kind = "return"

\* breakeven_price with positive costs and a negative production has raised.
C1_Witness ==
  /\ HasRaisedInvalidInput
  /\ fn = "breakeven_price"
  /\ DecIsPositive(args[1])
  /\ DecIsNegative(args[2])

(***************************************************************************)
(* C2.  All precondition checks run before any arithmetic: no validation   *)
(* follows an arithmetic operation, arithmetic runs only after every       *)
(* guarded argument has been checked and found positive, no division by a  *)
(* zero or negative guarded denominator is reached, and a failing call     *)
(* has performed no arithmetic and assigned no partial result.             *)
(***************************************************************************)
C2_ChecksBeforeArithmetic ==
  /\ \A i, j \in 1..Len(trace) :
       (i < j /\ trace[i].op \in ArithOps) => trace[j].op # "validate"
  /\ PerformedArithmetic =>
       \A n \in MustBePositive(fn) :
         /\ DecIsPositive(ArgNamed(n))
         /\ \E i \in 1..Len(trace) : trace[i].op = "validate" /\ trace[i].name = n
  /\ Performed("div") => DecIsPositive(ArgNamed(Denominator(fn)))
  /\ outcome.kind # "DivisionByZero"
  /\ outcome.kind = "InvalidInputError" => (~PerformedArithmetic /\ local = None)

\* capital_efficiency has failed on its second check: both validations ran,
\* no arithmetic did.
C2_Witness ==
  /\ HasRaisedInvalidInput
  /\ fn = "capital_efficiency"
  /\ OpsOf(trace) = <<"validate", "validate">>
  /\ DecIsZero(args[2])

(***************************************************************************)
(* C3.  The positivity validator succeeds with no effect exactly when the  *)
(* value is strictly greater than zero; otherwise the call ends with the   *)
(* invalid-input error, which carries the parameter name the formula       *)
(* passed and the offending value.  No other error kind occurs.            *)
(***************************************************************************)
C3_ValidatorStep ==
  (Len(trace') = Len(trace) + 1 /\ trace'[Len(trace')].op = "validate") =>
    LET n == trace'[Len(trace')].name
        v == ArgNamed(n)
    IN  /\ n \in MustBePositive(fn)
        /\ IF DecIsPositive(v)
           THEN pc' # 0 /\ UNCHANGED <<fn, args, local, outcome>>
           ELSE /\ pc' = 0
                /\ outcome' = [kind |-> "InvalidInputError", param |-> n, value |-> v]
                /\ UNCHANGED <<fn, args, local>>

\* C3: every validation step of every call behaves as the validator's
\* contract says, and InvalidInputError is the only error a call ends in.
C3_ValidatePositive ==
  [][C3_ValidatorStep /\ outcome'.kind \in {"none", "return", "InvalidInputError"}]_vars

\* recycle_ratio has raised for a negative finding_development_cost, and
\* the error names that parameter and carries that value.
C3_Witness ==
  /\ HasRaisedInvalidInput
  /\ fn = "recycle_ratio"
  /\ DecIsNegative(args[2])
  /\ outcome.param = "finding_development_cost"
  /\ outcome.value = args[2]

\* The six formulas with one guarded denominator and an unguarded input.
SingleGuardRatios ==
  {"finding_development_cost", "reserve_replacement_ratio", "lifting_cost",
   "breakeven_price", "operating_netback_margin", "recycle_ratio"}

(***************************************************************************)
(* C4.  Inputs not named in a precondition are unconstrained: the six      *)
(* single-guard ratios return a value, never an error, whenever their      *)
(* guarded denominator is strictly positive, also for zero and negative    *)
(* values of the other inputs.                                             *)
(***************************************************************************)
C4_OtherInputsUnconstrained ==
  (Ended /\ fn \in SingleGuardRatios /\ DecIsPositive(ArgNamed(Denominator(fn))))
    => /\ outcome.kind = "return"
       /\ outcome.value = local
       /\ ~IsSignal(outcome.value)

\* lifting_cost has returned a value for negative operating costs.
C4_Witness ==
  /\ HasReturned
  /\ fn = "lifting_cost"
  /\ DecIsNegative(args[1])
  /\ DecIsNegative(outcome.value)

(***************************************************************************)
(* Numbers of the properties: a returned Decimal against the rational      *)
(* number N * 10^en / (D * 10^ed), D > 0, by cross-multiplication on       *)
(* digit strings.                                                          *)
(***************************************************************************)
RECURSIVE AddSmall(_, _)
\* digit string plus the natural number c.
AddSmall(ds, c) ==
  IF ds = <<>> THEN (IF c = 0 THEN <<>> ELSE DigitsOf(c))
  ELSE LET t == ds[Len(ds)] + c
       IN  Append(AddSmall(SubSeq(ds, 1, Len(ds) - 1), t \div 10), t % 10)

\* |x| * D and |N| * 10^en / 10^ed, both in units of 10^x.exp or finer.
LeftSide(x, N, en, D, ed) ==
  LET k == en - ed - x.exp
  IN  StripLeading(MulSmall(x.digits, D, 0) \o Zeros(IF k < 0 THEN 0 - k ELSE 0))

RightSide(x, N, en, D, ed) ==
  LET k == en - ed - x.exp
  IN  StripLeading(DigitsOf(Abs(N)) \o Zeros(IF k > 0 THEN k ELSE 0))

SignOf(N) == IF N < 0 THEN 1 ELSE 0

\* x is the rational number exactly.
IsExactQuotient(x, N, en, D, ed) ==
  /\ ~IsSignal(x)
  /\ (N # 0 => x.sign = SignOf(N))
  /\ LeftSide(x, N, en, D, ed) = RightSide(x, N, en, D, ed)

\* x differs from the rational number by at most half a unit of its last
\* digit, which is the last of Prec digits unless x is the number exactly.
IsRoundedQuotient(x, N, en, D, ed) ==
  /\ ~IsSignal(x)
  /\ (N # 0 => x.sign = SignOf(N))
  /\ LET a2 == MulSmall(LeftSide(x, N, en, D, ed), 2, 0)
         b2 == MulSmall(RightSide(x, N, en, D, ed), 2, 0)
         u  == IF en - ed - x.exp < 0 THEN D * Pow10(x.exp - en + ed) ELSE D
     IN  /\ BigLeq(a2, AddSmall(b2, u))
         /\ BigLeq(b2, AddSmall(a2, u))
  /\ Len(x.digits) <= Prec
  /\ Len(x.digits) < Prec => IsExactQuotient(x, N, en, D, ed)

\* Two Decimals denote the same number (Decimal.__eq__).
DecEq(x, y) ==
  /\ ~IsSignal(x) /\ ~IsSignal(y)
  /\ LET m == Min(x.exp, y.exp)
         a == StripLeading(x.digits \o Zeros(x.exp - m))
         b == StripLeading(y.digits \o Zeros(y.exp - m))
     IN  a = b /\ (x.sign = y.sign \/ IsZeroDigits(a))

\* x shows as the two-place number y, whether the two places are reached
\* by rounding half-even or by truncation.
ShowsAs(x, y) == Quantize(x, 0 - 2) = y /\ Truncate(x, 0 - 2) = y

\* The running call is formula f with these arguments.
IsCall(f, a) == fn = f /\ args = a

(***************************************************************************)
(* C5 as stated: for all positive reserves_added and production,           *)
(* reserve_replacement_ratio returns reserves_added / production exactly,  *)
(* with no rounding.                                                       *)
(***************************************************************************)
C5_ExactQuotient ==
  (HasReturned /\ fn = "reserve_replacement_ratio"
     /\ DecIsPositive(args[1]) /\ DecIsPositive(args[2]))
    => IsExactQuotient(outcome.value, CoefInt(args[1]), args[1].exp,
                       CoefInt(args[2]), args[2].exp)

(***************************************************************************)
(* C5 amended: for all positive reserves_added and production,             *)
(* reserve_replacement_ratio returns reserves_added / production rounded   *)
(* half-even to 28 significant digits: exactly the quotient whenever that  *)
(* has at most 28 significant digits (1200000/1000000 is 1.20,             *)
(* 1000000/1000000 is 1.00, 800000/1000000 is 0.80), and within half a     *)
(* unit of the 28th digit otherwise (1/3 is 0.3333333333333333333333333333)*)
(* ; the function itself applies no further rounding.                      *)
(***************************************************************************)
C5_RoundedQuotient ==
  (Ended /\ fn = "reserve_replacement_ratio"
     /\ DecIsPositive(args[1]) /\ DecIsPositive(args[2]))
    => /\ outcome.kind = "return"
       /\ IsRoundedQuotient(outcome.value, CoefInt(args[1]), args[1].exp,
                            CoefInt(args[2]), args[2].exp)
       /\ DecIsPositive(outcome.value)
       /\ args = <<Dec(1200000, 0), Dec(1000000, 0)>> => DecEq(outcome.value, Dec(120, 0 - 2))
       /\ args = <<Dec(1000000, 0), Dec(1000000, 0)>> => DecEq(outcome.value, Dec(100, 0 - 2))
       /\ args = <<Dec(800000, 0), Dec(1000000, 0)>> => DecEq(outcome.value, Dec(80, 0 - 2))

\* reserve_replacement_ratio(1, 3) has returned a value of 28 digits that
\* is not one third.
C5_Witness ==
  /\ HasReturned
  /\ IsCall("reserve_replacement_ratio", <<Dec(1, 0), Dec(3, 0)>>)
  /\ Len(outcome.value.digits) = Prec
  /\ ~IsExactQuotient(outcome.value, 1, 0, 3, 0)

\* The sum of two short Decimals as an integer in units of 10^SumExp.
SumExp(a, b) == Min(a.exp, b.exp)

SumCoef(a, b) ==
  CoefInt(a) * Pow10(a.exp - SumExp(a, b)) + CoefInt(b) * Pow10(b.exp - SumExp(a, b))

(***************************************************************************)
(* C6.  For every reserves_added > 0 and any costs,                        *)
(* finding_development_cost returns (exploration_costs +                   *)
(* development_costs) / reserves_added, the costs being summed before the  *)
(* single division; (20000000, 30000000, 5000000) gives 10.00 and          *)
(* (50000000, 50000000, 2000000) gives 50.00.                              *)
(***************************************************************************)
C6_FindingDevelopmentCost ==
  (Ended /\ fn = "finding_development_cost" /\ DecIsPositive(args[3]))
    => /\ outcome.kind = "return"
       /\ IsRoundedQuotient(outcome.value, SumCoef(args[1], args[2]),
                            SumExp(args[1], args[2]), CoefInt(args[3]), args[3].exp)
       /\ OpsOf(trace) = <<"validate", "add", "div", "return">>
       /\ args = <<Dec(20000000, 0), Dec(30000000, 0), Dec(5000000, 0)>>
            => DecEq(outcome.value, Dec(1000, 0 - 2))
       /\ args = <<Dec(50000000, 0), Dec(50000000, 0), Dec(2000000, 0)>>
            => DecEq(outcome.value, Dec(5000, 0 - 2))

\* finding_development_cost(20000000, 30000000, 5000000) has returned 10.
C6_Witness ==
  /\ HasReturned
  /\ IsCall("finding_development_cost",
            <<Dec(20000000, 0), Dec(30000000, 0), Dec(5000000, 0)>>)
  /\ outcome.value = Dec(10, 0)

(***************************************************************************)
(* C7.  reserve_life_index returns proved_reserves / annual_production     *)
(* when both are strictly positive and the invalid-input error when either *)
(* is zero or negative; every returned value is strictly positive;         *)
(* reserve_life_index(100000000, 10000000) is 10.00.                       *)
(***************************************************************************)
C7_ReserveLifeIndex ==
  (Ended /\ fn = "reserve_life_index")
    => IF DecIsPositive(args[1]) /\ DecIsPositive(args[2])
       THEN /\ outcome.kind = "return"
            /\ IsRoundedQuotient(outcome.value, CoefInt(args[1]), args[1].exp,
                                 CoefInt(args[2]), args[2].exp)
            /\ DecIsPositive(outcome.value)
            /\ args = <<Dec(100000000, 0), Dec(10000000, 0)>>
                 => DecEq(outcome.value, Dec(1000, 0 - 2))
       ELSE outcome.kind = "InvalidInputError"

\* reserve_life_index has raised for negative reserves and a positive
\* production.
C7_Witness ==
  /\ HasRaisedInvalidInput
  /\ fn = "reserve_life_index"
  /\ DecIsNegative(args[1])
  /\ DecIsPositive(args[2])
  /\ outcome.param = "proved_reserves"

\* The smallest exponent among the arguments of the call.
ArgsExp == Min(Min(args[1].exp, args[2].exp), Min(args[3].exp, args[4].exp))

\* Argument i as an integer in units of 10^ArgsExp.
Units(i) == CoefInt(args[i]) * Pow10(args[i].exp - ArgsExp)

(***************************************************************************)
(* C8.  For all inputs netback returns oil_price - royalties -             *)
(* transportation - operating_costs, a value that depends on the three     *)
(* costs only through their sum (so it is linear and unchanged by any      *)
(* permutation of the costs) and is negative whenever the costs sum to     *)
(* more than the price; netback(70.00, 10.00, 5.00, 15.00) is 40.00,       *)
(* netback(30.00, 5.00, 10.00, 25.00) is -10.00 and netback(0, 0, 15, 5)   *)
(* is -20.00.                                                              *)
(***************************************************************************)
C8_Netback ==
  (Ended /\ fn = "netback")
    => /\ outcome.kind = "return"
       /\ outcome.value.exp = ArgsExp
       /\ CoefInt(outcome.value) = Units(1) - (Units(2) + Units(3) + Units(4))
       /\ Units(2) + Units(3) + Units(4) > Units(1) => DecIsNegative(outcome.value)
       /\ OpsOf(trace) = <<"sub", "sub", "sub", "return">>
       /\ args = <<Dec(7000, 0 - 2), Dec(1000, 0 - 2), Dec(500, 0 - 2), Dec(1500, 0 - 2)>>
            => outcome.value = Dec(4000, 0 - 2)
       /\ args = <<Dec(3000, 0 - 2), Dec(500, 0 - 2), Dec(1000, 0 - 2), Dec(2500, 0 - 2)>>
            => outcome.value = Dec(0 - 1000, 0 - 2)
       /\ args = <<Dec(0, 0 - 2), Dec(0, 0 - 2), Dec(1500, 0 - 2), Dec(500, 0 - 2)>>
            => outcome.value = Dec(0 - 2000, 0 - 2)

\* netback(30.00, 5.00, 10.00, 25.00) has returned -10.00.
C8_Witness ==
  /\ HasReturned
  /\ IsCall("netback",
            <<Dec(3000, 0 - 2), Dec(500, 0 - 2), Dec(1000, 0 - 2), Dec(2500, 0 - 2)>>)
  /\ outcome.value = Dec(0 - 1000, 0 - 2)

(***************************************************************************)
(* C9.  For every oil_price > 0 and any netback, operating_netback_margin  *)
(* returns (netback / oil_price) x 100, dividing first and multiplying by  *)
(* 100 afterwards; (40.00, 70.00) is 57.14 and (50.00, 60.00) is 83.33 at  *)
(* two decimal places, and (10.00, 50.00) is 20.00.                        *)
(***************************************************************************)
C9_OperatingNetbackMargin ==
  (Ended /\ fn = "operating_netback_margin" /\ DecIsPositive(args[2]))
    => /\ outcome.kind = "return"
       /\ IsRoundedQuotient(outcome.value, Hundred * CoefInt(args[1]), args[1].exp,
                            CoefInt(args[2]), args[2].exp)
       /\ OpsOf(trace) = <<"validate", "div", "mul", "return">>
       /\ args = <<Dec(4000, 0 - 2), Dec(7000, 0 - 2)>>
            => ShowsAs(outcome.value, Dec(5714, 0 - 2))
       /\ args = <<Dec(5000, 0 - 2), Dec(6000, 0 - 2)>>
            => ShowsAs(outcome.value, Dec(8333, 0 - 2))
       /\ args = <<Dec(1000, 0 - 2), Dec(5000, 0 - 2)>>
            => DecEq(outcome.value, Dec(2000, 0 - 2))

\* operating_netback_margin(40.00, 70.00) has returned a 28-digit value
\* that shows as 57.14.
C9_Witness ==
  /\ HasReturned
  /\ IsCall("operating_netback_margin", <<Dec(4000, 0 - 2), Dec(7000, 0 - 2)>>)
  /\ Len(outcome.value.digits) = Prec
  /\ Quantize(outcome.value, 0 - 2) = Dec(5714, 0 - 2)

TwoGuardRatios == {"reserve_life_index", "reserves_per_share", "capital_efficiency"}

\* The parameter names the running call has validated, in order.
RECURSIVE ValidatedNames(_)
ValidatedNames(t) ==
  IF t = <<>> THEN <<>>
  ELSE IF Head(t).op = "validate"
       THEN <<Head(t).name>> \o ValidatedNames(Tail(t))
       ELSE ValidatedNames(Tail(t))

(***************************************************************************)
(* C13.  In reserve_life_index, reserves_per_share and capital_efficiency  *)
(* the numerator parameter is validated before the denominator parameter:  *)
(* at every moment of a call the parameters validated so far are the       *)
(* numerator, or the numerator and then the denominator; when both         *)
(* arguments are non-positive the error names the numerator and the        *)
(* denominator is never checked; the error names the denominator only      *)
(* when the numerator is strictly positive.                                *)
(***************************************************************************)
C13_NumeratorValidatedFirst ==
  fn \in TwoGuardRatios =>
    /\ ValidatedNames(trace) \in
         {<<>>, <<ParamNames(fn)[1]>>, <<ParamNames(fn)[1], ParamNames(fn)[2]>>}
    /\ (Ended /\ ~DecIsPositive(args[1]) /\ ~DecIsPositive(args[2]))
         => /\ outcome.kind = "InvalidInputError"
            /\ outcome.param = ParamNames(fn)[1]
            /\ ValidatedNames(trace) = <<ParamNames(fn)[1]>>
    /\ (Ended /\ outcome.kind = "InvalidInputError"
              /\ outcome.param = ParamNames(fn)[2])
         => DecIsPositive(args[1])
    /\ (Ended /\ DecIsPositive(args[1]) /\ ~DecIsPositive(args[2]))
         => /\ outcome.kind = "InvalidInputError"
            /\ outcome.param = ParamNames(fn)[2]

\* reserves_per_share has raised for zero reserves and a negative share
\* count, naming the reserves, after one validation.
C13_Witness ==
  /\ HasRaisedInvalidInput
  /\ fn = "reserves_per_share"
  /\ DecIsZero(args[1])
  /\ DecIsNegative(args[2])
  /\ outcome.param = "total_proved_reserves"
  /\ OpsOf(trace) = <<"validate">>

\* The running frame is a call of the same formula with the same arguments
\* as the remembered call.
RepeatsRemembered == fn # "none" /\ parked.fn = fn /\ parked.args = args

IsPrefix(t, u) == Len(t) <= Len(u) /\ t = SubSeq(u, 1, Len(t))

\* The outcome of a frame whose call has ended.
EndedFrame(fr) == fr.pc = 0 /\ fr.outcome.kind # "none"

ChainExp ==
  Min(Min(chain.inputs[1].exp, chain.inputs[2].exp),
      Min(chain.inputs[3].exp, chain.inputs[4].exp))

\* Input i of the chain as an integer in units of 10^ChainExp.
ChainUnits(i) == CoefInt(chain.inputs[i]) * Pow10(chain.inputs[i].exp - ChainExp)

\* p - r - t - o in units of 10^ChainExp.
ChainNetback == ChainUnits(1) - ChainUnits(2) - ChainUnits(3) - ChainUnits(4)

\* e + d in units of 10^SumExp(e, d).
ChainCostSum == SumCoef(chain.inputs[5], chain.inputs[6])

\* x differs from the rational number by at most `ulps' units of its last
\* digit.
IsNearQuotient(x, N, en, D, ed, ulps) ==
  /\ ~IsSignal(x)
  /\ (N # 0 => x.sign = SignOf(N))
  /\ LET a == LeftSide(x, N, en, D, ed)
         b == RightSide(x, N, en, D, ed)
         u == IF en - ed - x.exp < 0 THEN D * Pow10(x.exp - en + ed) ELSE D
     IN  /\ BigLeq(a, AddSmall(b, ulps * u))
         /\ BigLeq(b, AddSmall(a, ulps * u))

(***************************************************************************)
(* C14.  The chain recycle_ratio(netback(p, r, t, o),                      *)
(* finding_development_cost(e, d, ra)) ends in the invalid-input error     *)
(* exactly when ra <= 0 (raised by finding_development_cost, naming        *)
(* reserves_added) or ra > 0 and e + d <= 0 (raised by recycle_ratio,      *)
(* naming finding_development_cost); in every other case it returns        *)
(* (p - r - t - o) / ((e + d) / ra), each of the two divisions being a     *)
(* Decimal division, so a value within six units of its last digit of the  *)
(* exact quotient, and the sign of the result is the sign of the netback.  *)
(***************************************************************************)
C14_RecycleRatioChain ==
  chain.stage = "done" =>
    LET p  == chain.inputs[1]
        r  == chain.inputs[2]
        t  == chain.inputs[3]
        o  == chain.inputs[4]
        e  == chain.inputs[5]
        d  == chain.inputs[6]
        ra == chain.inputs[7]
        x  == chain.result.value
    IN  IF ~DecIsPositive(ra)
        THEN /\ chain.result.kind = "InvalidInputError"
             /\ chain.result.param = "reserves_added"
             /\ chain.by = "finding_development_cost"
        ELSE IF ChainCostSum <= 0
        THEN /\ chain.result.kind = "InvalidInputError"
             /\ chain.result.param = "finding_development_cost"
             /\ chain.by = "recycle_ratio"
        ELSE /\ chain.result.kind = "return"
             /\ chain.by = "recycle_ratio"
             /\ x = DecDiv(DecSub(DecSub(DecSub(p, r), t), o), DecDiv(DecAdd(e, d), ra))
             /\ ChainNetback # 0 =>
                  IsNearQuotient(x, ChainNetback * CoefInt(ra), ChainExp + ra.exp,
                                 ChainCostSum, SumExp(e, d), 6)
             /\ DecIsPositive(x) <=> ChainNetback > 0
             /\ DecIsNegative(x) <=> ChainNetback < 0
             /\ DecIsZero(x) <=> ChainNetback = 0

\* The chain with a netback of -10.00 and a finding and development cost
\* of 2/3, a 28-digit divisor, has returned a negative ratio.
C14_Witness ==
  /\ chain.stage = "done"
  /\ chain.result.kind = "return"
  /\ chain.netback = Dec(0 - 1000, 0 - 2)
  /\ IsCall("recycle_ratio", <<chain.netback, DecDiv(Dec(2, 0), Dec(3, 0))>>)
  /\ Len(args[2].digits) = Prec
  /\ DecIsNegative(chain.result.value)

=============================================================================
